---- MODULE Spec2Model ----
(***************************************************************************)
(* Model of paasta_tools/envoy_tools.py: extraction of Envoy backends from *)
(* a /clusters snapshot (get_casper_endpoints, get_multiple_backends,      *)
(* get_backends) and their correlation with scheduler tasks                *)
(* (match_backends_and_tasks); and of the command function of              *)
(* paasta_tools/cli/cmds/show_metric_providers.py.                         *)
(*                                                                         *)
(* Strings that the code inspects with startswith/endswith/slicing are     *)
(* modelled as the sequence of their dot-separated, non-empty labels:      *)
(* "spectre.foo.egress_cluster" is <<"spectre", "foo", "egress_cluster">>  *)
(* and the empty string is << >>.  Python object references (a backend     *)
(* dict, a task object) are modelled as the 1-based position of the object *)
(* in the input list, so that two equal dicts stay two objects.            *)
(***************************************************************************)
EXTENDS Integers, Sequences, FiniteSets, TLC

VARIABLES
    pc,                  \* "start" before the call, "done" after it
    backends,            \* match_backends_and_tasks: the backends argument
    tasks,               \* match_backends_and_tasks: the tasks argument
    backend_task_pairs,  \* match_backends_and_tasks: outcome of the call
    clusters_info,       \* the parsed /clusters response (cluster_statuses)
    services,            \* get_multiple_backends: the services argument of the call
    unresolvable,        \* addresses for which socket.gethostbyaddr raises
    casper_endpoints,    \* get_multiple_backends: local casper_endpoints
    result,              \* get_multiple_backends: outcome of the call
    args,                \* paasta_show_metric_providers: the parsed arguments
    instance_configs,    \* what get_instance_configs_for_service yields
    cli                  \* paasta_show_metric_providers: return code and prints

vars == <<pc, backends, tasks, backend_task_pairs, clusters_info, services,
          unresolvable, casper_endpoints, result, args, instance_configs, cli>>

matchVars == <<backends, tasks, backend_task_pairs>>
extractVars == <<clusters_info, services, unresolvable, casper_endpoints, result>>
cliVars == <<args, instance_configs, cli>>

\* Python's None (an absent backend, an absent task, services=None).
None == 0

\* ---------------------------------------------------------------- bounds
MaxBackends == 3
MaxTasks == 2
MaxPorts == 2
MaxClusters == 2
MaxHosts == 4
\* configurations that get_instance_configs_for_service yields
MaxConfigs == 2

\* All sequences over S of length at most n.
SeqsUpTo(S, n) == UNION {[1..k -> S] : k \in 0..n}

RECURSIVE SumLen(_)
SumLen(ss) == IF ss = << >> THEN 0 ELSE Len(Head(ss)) + SumLen(Tail(ss))

\* ------------------------------------------------- match_backends_and_tasks

\* The (address, port_value) values of the backends handed to the correlation.
BackendKeys == {<<"10.0.0.1", 8080>>, <<"10.0.0.1", 9000>>, <<"10.0.0.2", 8080>>}

\* has_associated_task is an optional key of EnvoyBackend (total=False);
\* the backends built by get_multiple_backends do not have it: "unset"
BackendInputs ==
    {[address |-> k[1], port_value |-> k[2], has_associated_task |-> "unset"] :
        k \in BackendKeys}

TaskPorts == {8080, 9000}

\* task.host values; two of them resolve to one IP, one does not resolve.
TaskHosts == {"node1", "node1-alias", "gone"}

\* socket.gethostbyname: the IP of a host name; "unresolved" stands for the
\* lookup raising.
gethostbyname(host) ==
    CASE host = "node1" -> "10.0.0.1"
      [] host = "node1-alias" -> "10.0.0.1"
      [] OTHER -> "unresolved"

HostResolves(host) == gethostbyname(host) # "unresolved"

TaskInputs == {[host |-> h, ports |-> p] : h \in TaskHosts, p \in SeqsUpTo(TaskPorts, MaxPorts)}

PortLists(ts) == [i \in 1..Len(ts) |-> ts[i].ports]

\* backends_by_ip_port is a dict, which keeps its keys in insertion order: a
\* sequence of entries [key, value], value being the list of backends.
HasKey(d, k) == \E i \in 1..Len(d) : d[i].key = k

IndexOfKey(d, k) == CHOOSE i \in 1..Len(d) : d[i].key = k

\* variant: the assignment d[k] = [backend] instead of the append
DictAppend_Overwrite(d, k, b) ==
    IF HasKey(d, k)
    THEN [d EXCEPT ![IndexOfKey(d, k)].value = <<b>>]
    ELSE Append(d, [key |-> k, value |-> <<b>>])

\* backends_by_ip_port[ip, port].append(backend) on a defaultdict(list)
DictAppend(d, k, b) ==
    IF HasKey(d, k)
    THEN [d EXCEPT ![IndexOfKey(d, k)].value = Append(@, b)]
    ELSE Append(d, [key |-> k, value |-> <<b>>])

\* the first loop: group the backends by (address, port_value)
RECURSIVE GroupBackends(_, _, _)
GroupBackends(bs, i, d) ==
    IF i > Len(bs) THEN d
    ELSE GroupBackends(bs, i + 1,
                       DictAppend(d, <<bs[i].address, bs[i].port_value>>, i))

\* variant: one backend is popped from the key's list, the rest stay
DictPop_One(d, k, default) ==
    IF HasKey(d, k)
    THEN LET e == d[IndexOfKey(d, k)]
         IN [value |-> <<Head(e.value)>>,
             dict |-> IF Len(e.value) > 1
                      THEN [d EXCEPT ![IndexOfKey(d, k)].value = Tail(@)]
                      ELSE SelectSeq(d, LAMBDA x : x.key # k)]
    ELSE [value |-> default, dict |-> d]

\* variant: d.get(k, default), which leaves the key in the dict
DictPop_Get(d, k, default) ==
    IF HasKey(d, k)
    THEN [value |-> d[IndexOfKey(d, k)].value, dict |-> d]
    ELSE [value |-> default, dict |-> d]

\* d.pop(k, default): the value and the dict without the key
DictPop(d, k, default) ==
    IF HasKey(d, k)
    THEN [value |-> d[IndexOfKey(d, k)].value,
          dict |-> SelectSeq(d, LAMBDA e : e.key # k)]
    ELSE [value |-> default, dict |-> d]

\* variant: only the first backend of the popped list is paired
PairsFor_First(bl, t, p) ==
    [j \in 1..1 |-> [backend |-> bl[j], task |-> t, port |-> p]]

\* one pair per popped backend; port is the position in task.ports the pair
\* was appended for (an annotation of the model, 0 for a leftover backend)
PairsFor(bl, t, p) ==
    [j \in 1..Len(bl) |-> [backend |-> bl[j], task |-> t, port |-> p]]

\* for port in task.ports: for backend in pop(...): append((backend, task))
RECURSIVE PortLoop(_, _, _, _, _, _)
PortLoop(ts, t, ip, p, d, pairs) ==
    IF p > Len(ts[t].ports) THEN [dict |-> d, pairs |-> pairs]
    ELSE LET popped == DictPop(d, <<ip, ts[t].ports[p]>>, <<None>>)
         IN PortLoop(ts, t, ip, p + 1, popped.dict,
                     pairs \o PairsFor(popped.value, t, p))

\* for task in tasks: ip = socket.gethostbyname(task.host); ...
RECURSIVE TaskLoop(_, _, _, _)
TaskLoop(ts, t, d, pairs) ==
    IF t > Len(ts) THEN [raised |-> FALSE, dict |-> d, pairs |-> pairs]
    ELSE IF ~HostResolves(ts[t].host)
         THEN [raised |-> TRUE, dict |-> d, pairs |-> pairs]
         ELSE LET r == PortLoop(ts, t, gethostbyname(ts[t].host), 1, d, pairs)
              IN TaskLoop(ts, t + 1, r.dict, r.pairs)

\* variant: the leftovers are inserted at the front of the list
RECURSIVE Sweep_Front(_, _)
Sweep_Front(d, pairs) ==
    IF d = << >> THEN pairs
    ELSE Sweep_Front(Tail(d), PairsFor(Head(d).value, None, 0) \o pairs)

\* the last loop: whatever is left in the dict did not match a task
RECURSIVE Sweep(_, _)
Sweep(d, pairs) ==
    IF d = << >> THEN pairs
    ELSE Sweep(Tail(d), pairs \o PairsFor(Head(d).value, None, 0))

\* variant: the call writes has_associated_task into every backend it pairs
match_backends_and_tasks_Annotating(bs, ts) ==
    LET r == TaskLoop(ts, 1, GroupBackends(bs, 1, << >>), << >>)
        pairs == Sweep(r.dict, r.pairs)
        matched(b) == \E i \in 1..Len(pairs) : pairs[i].backend = b /\ pairs[i].task # None
    IN IF r.raised
       THEN [status |-> "raised", pairs |-> << >>, objects |-> bs]
       ELSE [status |-> "returned", pairs |-> pairs,
             objects |-> [b \in 1..Len(bs) |->
                            [bs[b] EXCEPT !.has_associated_task =
                                IF matched(b) THEN "true" ELSE "false"]]]

\* objects are the backend dicts as the call leaves them: the pairs hold
\* references to them, and no statement of the function writes to a backend
match_backends_and_tasks(bs, ts) ==
    LET r == TaskLoop(ts, 1, GroupBackends(bs, 1, << >>), << >>)
    IN IF r.raised
       THEN [status |-> "raised", pairs |-> << >>, objects |-> bs]
       ELSE [status |-> "returned", pairs |-> Sweep(r.dict, r.pairs), objects |-> bs]

NoCall == [status |-> "none", pairs |-> << >>, objects |-> << >>]

\* ---------------------------------------------------- get_multiple_backends

\* Cluster names, as label sequences.
ClusterNames ==
    {<<"web", "egress_cluster">>,
     <<"api", "egress_cluster">>,
     <<"spectre", "foo", "egress_cluster">>,
     <<"spectre", "egress_cluster">>,
     <<"spectre", "foo">>}

\* host_status entries of the /clusters response
HostStatuses ==
    {[address |-> "10.0.0.9", port_value |-> 9000,
      eds_health_status |-> "HEALTHY", weight |-> 1],
     [address |-> "10.0.0.1", port_value |-> 8080,
      eds_health_status |-> "UNHEALTHY", weight |-> 2]}

\* the sets of addresses whose reverse lookup fails
UnresolvableSets == {{}, {"10.0.0.9"}}

\* services=None, and a collection of service names
ServicesNone == [none |-> TRUE, names |-> {}]

ServicesOf(S) == [none |-> FALSE, names |-> S]

ServiceArgs == {ServicesNone, ServicesOf({}), ServicesOf({<<"web">>, <<"API">>})}

\* the service argument of get_backends; << >> is the empty string
ServiceStrings == {<< >>, <<"spectre", "foo">>}

\* name.startswith("spectre.")
startswith_spectre(name) == Len(name) >= 2 /\ name[1] = "spectre"

\* name.endswith(".egress_cluster")
endswith_egress_cluster(name) == Len(name) >= 2 /\ name[Len(name)] = "egress_cluster"

\* name[: -len(".egress_cluster")]
service_name_of(name) == SubSeq(name, 1, Len(name) - 1)

\* (address, port_value) of a host_status
socket_address(hs) == <<hs.address, hs.port_value>>

\* the inner loop of get_casper_endpoints: casper_endpoints.add(...)
RECURSIVE AddHosts(_, _, _)
AddHosts(hss, h, eps) ==
    IF h > Len(hss) THEN eps
    ELSE AddHosts(hss, h + 1, eps \cup {socket_address(hss[h])})

\* variant: only the "spectre." prefix is tested
IsCasperCluster_PrefixOnly(cluster_status) ==
    /\ cluster_status.has_host_statuses
    /\ startswith_spectre(cluster_status.name)

\* the conditions under which get_casper_endpoints reads a cluster
IsCasperCluster(cluster_status) ==
    /\ cluster_status.has_host_statuses
    /\ startswith_spectre(cluster_status.name)
    /\ endswith_egress_cluster(cluster_status.name)

RECURSIVE CasperLoop(_, _, _)
CasperLoop(ci, c, eps) ==
    IF c > Len(ci) THEN eps
    ELSE IF IsCasperCluster(ci[c])
         THEN CasperLoop(ci, c + 1, AddHosts(ci[c].host_statuses, 1, eps))
         ELSE CasperLoop(ci, c + 1, eps)

get_casper_endpoints(ci) == CasperLoop(ci, 1, {})

\* socket.gethostbyaddr(address)[0]: the primary host name, as labels
gethostbyaddr(address) ==
    CASE address = "10.0.0.9" -> <<"casper9", "prod", "example", "com">>
      [] address = "10.0.0.1" -> <<"web1", "prod", "example", "com">>
      [] OTHER -> <<"localhost">>

\* gethostbyaddr(...)[0].split(".")[0]
short_hostname(address) == Head(gethostbyaddr(address))

EnvoyBackend(hs) ==
    [address |-> hs.address,
     port_value |-> hs.port_value,
     hostname |-> short_hostname(hs.address),
     eds_health_status |-> hs.eds_health_status,
     weight |-> hs.weight]

\* variant: `not services or service_name in services`
ServiceSelected_Truthy(svcs, service_name) ==
    svcs.none \/ svcs.names = {} \/ service_name \in svcs.names

\* services is None or service_name in services
ServiceSelected(svcs, service_name) == svcs.none \/ service_name \in svcs.names

\* variant: the check without the test of the service name
IsCasperExcluded_AnyService(service_name, hs, eps) == socket_address(hs) \in eps

\* the casper check that ends in `continue`
IsCasperExcluded(service_name, hs, eps) ==
    /\ ~startswith_spectre(service_name)
    /\ socket_address(hs) \in eps

\* variant: the tuple carries False instead of casper_endpoint_found
BackendTuple_NeverFlagged(hs, found, c) ==
    [backend |-> EnvoyBackend(hs), casper |-> FALSE, cluster |-> c]

\* the tuple appended to cluster_backends; cluster is the position of the
\* cluster_status it was built from (an annotation of the model)
BackendTuple(hs, found, c) ==
    [backend |-> EnvoyBackend(hs), casper |-> found, cluster |-> c]

\* variant: a host whose reverse lookup fails is left out of the list
RECURSIVE HostLoop_BestEffort(_, _, _, _, _, _, _, _)
HostLoop_BestEffort(service_name, hss, h, eps, unres, c, cluster_backends, found) ==
    IF h > Len(hss)
    THEN [raised |-> FALSE, cluster_backends |-> cluster_backends]
    ELSE IF IsCasperExcluded(service_name, hss[h], eps)
         THEN HostLoop_BestEffort(service_name, hss, h + 1, eps, unres, c,
                                  cluster_backends, TRUE)
         ELSE IF hss[h].address \in unres
              THEN HostLoop_BestEffort(service_name, hss, h + 1, eps, unres, c,
                                       cluster_backends, found)
              ELSE HostLoop_BestEffort(service_name, hss, h + 1, eps, unres, c,
                                       Append(cluster_backends,
                                              BackendTuple(hss[h], found, c)),
                                       found)

\* for host_status in cluster_status["host_statuses"]: ...
RECURSIVE HostLoop(_, _, _, _, _, _, _, _)
HostLoop(service_name, hss, h, eps, unres, c, cluster_backends, found) ==
    IF h > Len(hss)
    THEN [raised |-> FALSE, cluster_backends |-> cluster_backends]
    ELSE IF IsCasperExcluded(service_name, hss[h], eps)
         THEN HostLoop(service_name, hss, h + 1, eps, unres, c, cluster_backends, TRUE)
         ELSE IF hss[h].address \in unres
              THEN [raised |-> TRUE, cluster_backends |-> << >>]
              ELSE HostLoop(service_name, hss, h + 1, eps, unres, c,
                            Append(cluster_backends, BackendTuple(hss[h], found, c)),
                            found)

\* the conditions under which get_multiple_backends reads a cluster
IsSelectedCluster(cluster_status, svcs) ==
    /\ cluster_status.has_host_statuses
    /\ endswith_egress_cluster(cluster_status.name)
    /\ ServiceSelected(svcs, service_name_of(cluster_status.name))

\* variant: `backends = cluster_backends` instead of `backends += ...`
RECURSIVE ClusterLoop_Assign(_, _, _, _, _, _)
ClusterLoop_Assign(ci, c, eps, svcs, unres, bs) ==
    IF c > Len(ci) THEN [status |-> "returned", backends |-> bs]
    ELSE IF IsSelectedCluster(ci[c], svcs)
         THEN LET r == HostLoop(service_name_of(ci[c].name), ci[c].host_statuses,
                                1, eps, unres, c, << >>, FALSE)
              IN IF r.raised
                 THEN [status |-> "raised", backends |-> << >>]
                 ELSE ClusterLoop_Assign(ci, c + 1, eps, svcs, unres, r.cluster_backends)
         ELSE ClusterLoop_Assign(ci, c + 1, eps, svcs, unres, bs)

\* for cluster_status in clusters_info["cluster_statuses"]: ...
RECURSIVE ClusterLoop(_, _, _, _, _, _)
ClusterLoop(ci, c, eps, svcs, unres, bs) ==
    IF c > Len(ci) THEN [status |-> "returned", backends |-> bs]
    ELSE IF IsSelectedCluster(ci[c], svcs)
         THEN LET r == HostLoop(service_name_of(ci[c].name), ci[c].host_statuses,
                                1, eps, unres, c, << >>, FALSE)
              IN IF r.raised
                 THEN [status |-> "raised", backends |-> << >>]
                 ELSE ClusterLoop(ci, c + 1, eps, svcs, unres, bs \o r.cluster_backends)
         ELSE ClusterLoop(ci, c + 1, eps, svcs, unres, bs)

get_multiple_backends(svcs, ci, unres) ==
    ClusterLoop(ci, 1, get_casper_endpoints(ci), svcs, unres, << >>)

\* get_backends: `if service: services = [service] else: services = None`
get_backends_services(service) ==
    IF service # << >> THEN ServicesOf({service}) ELSE ServicesNone


\* ------------------------------------------- paasta show-metric-providers

\* the instance configurations: the class of the config object and what its
\* is_autoscaling_enabled() answers
ConfigKinds == {"kubernetes", "eks", "other"}
ConfigInputs == [kind : ConfigKinds, autoscaling_enabled : BOOLEAN]

\* args.json, and whether args.instances / args.clusters were given
ArgInputs == [json : BOOLEAN, instances : BOOLEAN, clusters : BOOLEAN]

\* variant: only KubernetesDeploymentConfig passes the filter
IsAutoscalingCapable_KubernetesOnly(config) == config.kind = "kubernetes"

\* isinstance(config, (KubernetesDeploymentConfig, EksDeploymentConfig))
IsAutoscalingCapable(config) == config.kind \in {"kubernetes", "eks"}

\* format_instance_info: None, or the kind of dict it returns
format_instance_info(config, json_output) ==
    IF ~config.autoscaling_enabled
    THEN IF ~json_output THEN "None" ELSE "json_disabled"
    ELSE IF json_output THEN "json_enabled" ELSE "formatted_output"

\* for config in autoscaling_configs: ... if result: results.append(result)
CollectResults(autoscaling_configs, json_output) ==
    SelectSeq([i \in DOMAIN autoscaling_configs |->
                   format_instance_info(autoscaling_configs[i], json_output)],
              LAMBDA r : r # "None")

\* for result in results: print(result["formatted_output"]); print()
RECURSIVE PrintResults(_, _)
PrintResults(results, printed) ==
    IF results = << >> THEN printed
    ELSE PrintResults(Tail(results),
                      IF Head(results) = "formatted_output"
                      THEN printed \o <<"formatted_output", "">>
                      ELSE printed)

\* the outcome of the call: the return code and the print calls, in order
Returns(code, printed) == [status |-> "returned", code |-> code, printed |-> printed]

paasta_show_metric_providers(a, configs) ==
    IF configs = << >>
    THEN Returns(1, <<"No instances found">>
                    \o (IF a.instances THEN <<"Requested instances">> ELSE << >>)
                    \o (IF a.clusters THEN <<"Requested clusters">> ELSE << >>))
    ELSE LET autoscaling_configs == SelectSeq(configs, IsAutoscalingCapable)
         IN IF autoscaling_configs = << >>
            THEN Returns(1, <<"No autoscaling-capable instances found",
                              "Only Kubernetes and EKS instances support autoscaling.">>)
            ELSE LET results == CollectResults(autoscaling_configs, a.json)
                 IN IF a.json
                    THEN Returns(0, <<"json.dumps">>)
                    ELSE IF results = << >>
                         THEN Returns(0, <<"No instances with autoscaling enabled">>)
                         ELSE Returns(0, PrintResults(results,
                                             <<"Metric providers for service", "">>))

NoRun == [status |-> "none", code |-> 0, printed |-> << >>]

\* no call of the command in this run
CliIdle ==
    /\ args = [json |-> FALSE, instances |-> FALSE, clusters |-> FALSE]
    /\ instance_configs = << >>
    /\ cli = NoRun


NoResult == [status |-> "none", backends |-> << >>]

\* Snapshots: k clusters and n host-statuses in all, the j-th host-status
\* being in cluster at[j] (at is non-decreasing); the clusters in keyless
\* have no "host_statuses" key.
Monotone(n, k) == {at \in [1..n -> 1..k] : \A i, j \in 1..n : i <= j => at[i] <= at[j]}

HostsOf(hs, at, c) ==
    LET idx == {j \in DOMAIN at : at[j] = c}
        before == Cardinality({j \in DOMAIN at : at[j] < c})
    IN [j \in 1..Cardinality(idx) |-> hs[before + j]]

Snapshot(ns, hs, at, keyless) ==
    [c \in DOMAIN ns |->
        [name |-> ns[c],
         has_host_statuses |-> c \notin keyless,
         host_statuses |-> HostsOf(hs, at, c)]]

\* the clusters that may lack the key: those without host-statuses
Keyless(k, at) == SUBSET {c \in 1..k : \A j \in DOMAIN at : at[j] # c}

\* the lists of k cluster names; Envoy lists every cluster once, under its name
NameLists(k) == {ns \in [1..k -> ClusterNames] : \A i, j \in 1..k : ns[i] = ns[j] => i = j}

\* clusters_info is a snapshot within the bounds
SnapshotFetched ==
    \E k \in 0..MaxClusters, n \in 0..MaxHosts :
       \E ns \in NameLists(k), hs \in [1..n -> HostStatuses], at \in Monotone(n, k) :
          \E keyless \in Keyless(k, at) :
             clusters_info = Snapshot(ns, hs, at, keyless)

InitExtract ==
    /\ pc = "start"
    /\ SnapshotFetched
    /\ services = ServicesNone
    /\ unresolvable \in UnresolvableSets
    /\ casper_endpoints = {}
    /\ result = NoResult
    /\ backends = << >>
    /\ tasks = << >>
    /\ backend_task_pairs = NoCall
    /\ CliIdle

\* a call of get_multiple_backends(services, ...)
GetMultipleBackends ==
    /\ pc = "start"
    /\ \E svcs \in ServiceArgs :
          /\ services' = svcs
          /\ result' = get_multiple_backends(svcs, clusters_info, unresolvable)
    /\ casper_endpoints' = get_casper_endpoints(clusters_info)
    /\ pc' = "done"
    /\ UNCHANGED <<clusters_info, unresolvable, matchVars, cliVars>>

\* a call of get_backends(service, ...)
GetBackends ==
    /\ pc = "start"
    /\ \E service \in ServiceStrings :
          /\ services' = get_backends_services(service)
          /\ result' = get_multiple_backends(services', clusters_info, unresolvable)
    /\ casper_endpoints' = get_casper_endpoints(clusters_info)
    /\ pc' = "done"
    /\ UNCHANGED <<clusters_info, unresolvable, matchVars, cliVars>>

NextExtract == GetMultipleBackends \/ GetBackends

SpecExtract == InitExtract /\ [][NextExtract]_vars

InitCasper ==
    /\ pc = "start"
    /\ SnapshotFetched
    /\ services = ServicesNone
    /\ unresolvable = {}
    /\ casper_endpoints = {}
    /\ result = NoResult
    /\ backends = << >>
    /\ tasks = << >>
    /\ backend_task_pairs = NoCall
    /\ CliIdle

\* a call of get_casper_endpoints(clusters_info)
GetCasperEndpoints ==
    /\ pc = "start"
    /\ casper_endpoints' = get_casper_endpoints(clusters_info)
    /\ pc' = "done"
    /\ UNCHANGED <<clusters_info, services, unresolvable, result, matchVars, cliVars>>

NextCasper == GetCasperEndpoints

SpecCasper == InitCasper /\ [][NextCasper]_vars


InitMatch ==
    /\ pc = "start"
    /\ backends \in SeqsUpTo(BackendInputs, MaxBackends)
    /\ tasks \in {ts \in SeqsUpTo(TaskInputs, MaxTasks) : SumLen(PortLists(ts)) <= MaxPorts}
    /\ backend_task_pairs = NoCall
    /\ clusters_info = << >>
    /\ services = ServicesNone
    /\ unresolvable = {}
    /\ casper_endpoints = {}
    /\ result = NoResult
    /\ CliIdle

Match ==
    /\ pc = "start"
    /\ backend_task_pairs' = match_backends_and_tasks(backends, tasks)
    /\ pc' = "done"
    /\ UNCHANGED <<backends, tasks, extractVars, cliVars>>

NextMatch == Match

SpecMatch == InitMatch /\ [][NextMatch]_vars

InitCli ==
    /\ pc = "start"
    /\ args \in ArgInputs
    /\ instance_configs \in SeqsUpTo(ConfigInputs, MaxConfigs)
    /\ cli = NoRun
    /\ backends = << >>
    /\ tasks = << >>
    /\ backend_task_pairs = NoCall
    /\ clusters_info = << >>
    /\ services = ServicesNone
    /\ unresolvable = {}
    /\ casper_endpoints = {}
    /\ result = NoResult

\* a call of paasta_show_metric_providers(args)
PaastaShowMetricProviders ==
    /\ pc = "start"
    /\ cli' = paasta_show_metric_providers(args, instance_configs)
    /\ pc' = "done"
    /\ UNCHANGED <<args, instance_configs, matchVars, extractVars>>

NextCli == PaastaShowMetricProviders

SpecCli == InitCli /\ [][NextCli]_vars

\* ------------------------------------------- properties of the correlation

Returned == pc = "done" /\ backend_task_pairs.status = "returned"

Pairs == backend_task_pairs.pairs

PairIndexes == 1..Len(Pairs)

BackendKey(b) == <<backends[b].address, backends[b].port_value>>

\* the key a task's p-th port resolves to
TaskPortKey(t, p) == <<gethostbyname(tasks[t].host), tasks[t].ports[p]>>

\* every (task, position in its ports list)
TaskPorts_All ==
    UNION {{<<t, p>> : p \in 1..Len(tasks[t].ports)} : t \in 1..Len(tasks)}

\* <<t1, p1>> comes before <<t2, p2>> in task-then-port iteration order
Earlier(t1, p1, t2, p2) == t1 < t2 \/ (t1 = t2 /\ p1 < p2)

PairsOfBackend(b) == {i \in PairIndexes : Pairs[i].backend = b}

PairsOfTaskPort(t, p) == {i \in PairIndexes : Pairs[i].task = t /\ Pairs[i].port = p}

\* C1: when match_backends_and_tasks returns, every input backend is the
\* backend side of exactly one pair, and no pair names a backend that was
\* not in the input.
C1_EachBackendOnce ==
    Returned =>
        /\ \A b \in 1..Len(backends) : Cardinality(PairsOfBackend(b)) = 1
        /\ \A i \in PairIndexes : Pairs[i].backend \in {None} \cup (1..Len(backends))

\* C1 witness: a returned correlation of two backends with one key and a
\* third with another, and two tasks with a port each on one IP.
C1_Witness ==
    /\ Returned
    /\ Len(backends) = 3
    /\ BackendKey(1) = BackendKey(2) /\ BackendKey(3) # BackendKey(1)
    /\ Len(tasks) = 2
    /\ tasks[1].host # tasks[2].host
    /\ gethostbyname(tasks[1].host) = gethostbyname(tasks[2].host)
    /\ Len(tasks[1].ports) = 1 /\ Len(tasks[2].ports) = 1

\* C2 (as claimed): every (task, port) is the task side of exactly one pair.
C2_EachTaskPortOnce ==
    Returned =>
        \A tp \in TaskPorts_All : Cardinality(PairsOfTaskPort(tp[1], tp[2])) = 1

\* a pair with both sides whose backend key is the key of the task's port
KeysEqual(i) ==
    /\ Pairs[i].backend # None
    /\ Pairs[i].task # None
    /\ BackendKey(Pairs[i].backend) = TaskPortKey(Pairs[i].task, Pairs[i].port)

BothSides(i) == Pairs[i].backend # None /\ Pairs[i].task # None

\* C3 (as claimed): a pair has both sides iff the keys are equal, and neither
\* a backend nor a task-port with a counterpart of its key is paired with None.
C3_BothSidesIffKeysEqual ==
    Returned =>
        \A i \in PairIndexes :
            /\ BothSides(i) <=> KeysEqual(i)
            /\ (Pairs[i].task = None) =>
                   \A tp \in TaskPorts_All :
                       TaskPortKey(tp[1], tp[2]) # BackendKey(Pairs[i].backend)
            /\ (Pairs[i].backend = None) =>
                   \A b \in 1..Len(backends) :
                       BackendKey(b) # TaskPortKey(Pairs[i].task, Pairs[i].port)

\* C3 (amended): a pair with both sides joins equal keys; a backend paired
\* with None has no task-port of its key; and a task-port is paired with
\* None exactly when no input backend has its key or an earlier task-port,
\* in task-then-port order, resolves to the same key.
C3_Amended ==
    Returned =>
        \A i \in PairIndexes :
            /\ BothSides(i) <=> KeysEqual(i)
            /\ (Pairs[i].task = None) =>
                   \A tp \in TaskPorts_All :
                       TaskPortKey(tp[1], tp[2]) # BackendKey(Pairs[i].backend)
            /\ (Pairs[i].task # None) =>
                   LET t == Pairs[i].task
                       p == Pairs[i].port
                   IN (Pairs[i].backend = None) <=>
                          \/ \A b \in 1..Len(backends) : BackendKey(b) # TaskPortKey(t, p)
                          \/ \E tp \in TaskPorts_All :
                                /\ Earlier(tp[1], tp[2], t, p)
                                /\ TaskPortKey(tp[1], tp[2]) = TaskPortKey(t, p)

\* C3 witness: a backend is paired with the first task-port of its key and
\* a later task-port of the same key is paired with None, next to a backend
\* that no task matches.
C3_Witness ==
    /\ Returned
    /\ \E i, j, k \in PairIndexes :
          /\ KeysEqual(i)
          /\ Pairs[j].backend = None
          /\ TaskPortKey(Pairs[j].task, Pairs[j].port) = BackendKey(Pairs[i].backend)
          /\ Pairs[k].task = None

\* the first input position of a backend with the key of backend b
FirstOfKey(b) ==
    CHOOSE f \in 1..Len(backends) :
        /\ BackendKey(f) = BackendKey(b)
        /\ \A g \in 1..Len(backends) : BackendKey(g) = BackendKey(b) => f <= g

\* C8: the pairs with a task side come first, in task-then-port order (the
\* backends of one task-port in input order); the (backend, None) pairs
\* follow, grouped by key in the order of each key's first appearance in
\* the backend input and in input order within a group.
C8_Ordering ==
    Returned =>
        \A i, j \in PairIndexes :
            i < j =>
                /\ Pairs[i].task = None => Pairs[j].task = None
                /\ (Pairs[i].task # None /\ Pairs[j].task # None) =>
                       \/ Earlier(Pairs[i].task, Pairs[i].port, Pairs[j].task, Pairs[j].port)
                       \/ /\ Pairs[i].task = Pairs[j].task
                          /\ Pairs[i].port = Pairs[j].port
                          /\ Pairs[i].backend < Pairs[j].backend
                /\ (Pairs[i].task = None /\ Pairs[j].task = None) =>
                       \/ FirstOfKey(Pairs[i].backend) < FirstOfKey(Pairs[j].backend)
                       \/ /\ BackendKey(Pairs[i].backend) = BackendKey(Pairs[j].backend)
                          /\ Pairs[i].backend < Pairs[j].backend

\* C8 witness: a task-port pair followed by three leftover backends whose
\* keys interleave in the input (first and third share a key), so that
\* grouping reorders them.
C8_Witness ==
    /\ Returned
    /\ Len(Pairs) = 4
    /\ Pairs[1].task # None
    /\ Pairs[2] = [backend |-> 1, task |-> None, port |-> 0]
    /\ Pairs[3] = [backend |-> 3, task |-> None, port |-> 0]
    /\ Pairs[4] = [backend |-> 2, task |-> None, port |-> 0]

\* -------------------------------------------- properties of the extraction

ExtractDone == pc = "done" /\ result.status # "none"

ExtractReturned == pc = "done" /\ result.status = "returned"

ExtractRaised == pc = "done" /\ result.status = "raised"

Out == result.backends

ClusterIndexes == DOMAIN clusters_info

ServiceNameAt(c) == service_name_of(clusters_info[c].name)

\* the cluster ends in ".egress_cluster", has host-statuses to read and its
\* service name passes the filter as the code applies it
SelectedAt(c) ==
    /\ clusters_info[c].has_host_statuses
    /\ endswith_egress_cluster(clusters_info[c].name)
    /\ (services.none \/ ServiceNameAt(c) \in services.names)

HostsAt(c) == clusters_info[c].host_statuses

\* every (cluster, position of a host-status in it)
HostPositions == UNION {{<<c, h>> : h \in 1..Len(HostsAt(c))} : c \in ClusterIndexes}

SelectedHostPositions == {ch \in HostPositions : SelectedAt(ch[1])}

\* the host-status is skipped under the casper exclusion rule
SkippedAt(c, h) ==
    /\ ~startswith_spectre(ServiceNameAt(c))
    /\ socket_address(HostsAt(c)[h]) \in casper_endpoints

\* the backends of the output that were built from cluster c, in order
OutOf(c) == SelectSeq(Out, LAMBDA e : e.cluster = c)

\* C4 (as claimed): a cluster of a non-spectre service with a casper
\* host-status anywhere in it has the casper flag true on all its backends.
C4_AllFlagged ==
    ExtractReturned =>
        \A c \in ClusterIndexes :
            (/\ SelectedAt(c)
             /\ ~startswith_spectre(ServiceNameAt(c))
             /\ \E h \in 1..Len(HostsAt(c)) :
                   socket_address(HostsAt(c)[h]) \in casper_endpoints)
            => \A i \in 1..Len(Out) : Out[i].cluster = c => Out[i].casper

\* the name matches spectre.<anything>.egress_cluster
IsSpectreEgressName(name) ==
    /\ Len(name) >= 3
    /\ name[1] = "spectre"
    /\ name[Len(name)] = "egress_cluster"

\* C5: in a returned list no backend of a non-spectre service has an
\* (address, port) of the casper endpoint set, and a selected cluster named
\* spectre.*.egress_cluster has every one of its host-statuses emitted, in
\* order, with the casper flag false.
C5_CasperExclusion ==
    ExtractReturned =>
        /\ \A i \in 1..Len(Out) :
              ~startswith_spectre(ServiceNameAt(Out[i].cluster)) =>
                  <<Out[i].backend.address, Out[i].backend.port_value>>
                      \notin casper_endpoints
        /\ \A c \in ClusterIndexes :
              (SelectedAt(c) /\ IsSpectreEgressName(clusters_info[c].name)) =>
                  LET out == OutOf(c)
                  IN /\ Len(out) = Len(HostsAt(c))
                     /\ \A h \in 1..Len(HostsAt(c)) :
                           /\ out[h].backend.address = HostsAt(c)[h].address
                           /\ out[h].backend.port_value = HostsAt(c)[h].port_value
                           /\ ~out[h].casper

\* C5 witness: a returned list for a snapshot in which a spectre cluster and a
\* web cluster list the same (address, port), the web cluster listing
\* another host as well.
C5_Witness ==
    /\ ExtractReturned
    /\ Len(clusters_info) = 2
    /\ clusters_info[1].name = <<"web", "egress_cluster">>
    /\ clusters_info[2].name = <<"spectre", "foo", "egress_cluster">>
    /\ Len(HostsAt(1)) = 2 /\ Len(HostsAt(2)) = 1
    /\ HostsAt(1)[2] = HostsAt(2)[1]
    /\ HostsAt(1)[1] # HostsAt(2)[1]
    /\ Len(OutOf(1)) = 1 /\ Len(OutOf(2)) = 1

\* the number of host-statuses of cluster c that are not skipped
KeptAt(c) == Cardinality({h \in 1..Len(HostsAt(c)) : ~SkippedAt(c, h)})

\* C6 (as claimed): the filter applies only when it is non-empty: with None
\* or an empty collection every ".egress_cluster" cluster contributes, else a
\* cluster contributes iff its service name is in the filter.
C6_FilterOnlyWhenNonEmpty ==
    ExtractReturned =>
        \A c \in ClusterIndexes :
            IF /\ clusters_info[c].has_host_statuses
               /\ endswith_egress_cluster(clusters_info[c].name)
               /\ \/ services.none
                  \/ services.names = {}
                  \/ ServiceNameAt(c) \in services.names
            THEN Len(OutOf(c)) = KeptAt(c)
            ELSE OutOf(c) = << >>

\* C6 (amended): the filter applies whenever services is not None: with None
\* every ".egress_cluster" cluster contributes its backends; with a
\* collection, an empty one included, a cluster contributes iff its name
\* minus the suffix is, case-sensitively, a member.
C6_FilterUnlessNone ==
    ExtractReturned =>
        \A c \in ClusterIndexes :
            IF /\ clusters_info[c].has_host_statuses
               /\ endswith_egress_cluster(clusters_info[c].name)
               /\ \/ services.none
                  \/ ServiceNameAt(c) \in services.names
            THEN Len(OutOf(c)) = KeptAt(c)
            ELSE OutOf(c) = << >>

\* C6 witness: filter {web} over web.egress_cluster and api.egress_cluster,
\* both with hosts: only web's backends are returned.
C6_Witness ==
    /\ ExtractReturned
    /\ services = ServicesOf({<<"web">>, <<"API">>})
    /\ Len(clusters_info) = 2
    /\ clusters_info[1].name = <<"api", "egress_cluster">>
    /\ clusters_info[2].name = <<"web", "egress_cluster">>
    /\ Len(HostsAt(1)) >= 1 /\ Len(HostsAt(2)) >= 1
    /\ Len(Out) = Len(HostsAt(2))
    /\ \A i \in 1..Len(Out) : Out[i].cluster = 2

\* C7: the backends returned plus the host-statuses skipped under the casper
\* rule are as many as the host-statuses of the selected clusters.
C7_Count ==
    ExtractReturned =>
        LET selected == SelectedHostPositions
        IN Len(Out) + Cardinality({ch \in selected : SkippedAt(ch[1], ch[2])})
               = Cardinality(selected)

\* C7 witness: a returned list with a backend from each of two clusters and
\* a skipped host-status.
C7_Witness ==
    /\ ExtractReturned
    /\ Len(clusters_info) = 2
    /\ Len(OutOf(1)) >= 1 /\ Len(OutOf(2)) >= 1
    /\ \E ch \in SelectedHostPositions : SkippedAt(ch[1], ch[2])

\* C9 (as claimed): if the address of any host-status of a selected cluster
\* does not resolve, the call fails.
C9_AnyUnresolvedFails ==
    ExtractDone =>
        ((\E ch \in SelectedHostPositions :
              HostsAt(ch[1])[ch[2]].address \in unresolvable)
         => result.status = "raised")

\* C9 (amended): the call fails, returning no list, exactly when the address
\* of a host-status of a selected cluster that is not skipped under the
\* casper rule does not resolve; a returned list holds every such host.
C9_UnresolvedKeptFails ==
    ExtractDone =>
        /\ result.status = "raised" <=>
              \E ch \in SelectedHostPositions :
                  /\ ~SkippedAt(ch[1], ch[2])
                  /\ HostsAt(ch[1])[ch[2]].address \in unresolvable
        /\ result.status = "raised" => Out = << >>
        /\ result.status = "returned" =>
              \A c \in ClusterIndexes : SelectedAt(c) => Len(OutOf(c)) = KeptAt(c)

\* C9 witness: the call fails on a host of the second cluster after the first
\* cluster's hosts were resolved.
C9_Witness ==
    /\ ExtractRaised
    /\ Len(clusters_info) = 2
    /\ SelectedAt(1) /\ SelectedAt(2)
    /\ Len(HostsAt(1)) >= 1
    /\ \A h \in 1..Len(HostsAt(1)) : HostsAt(1)[h].address \notin unresolvable
    /\ \E h \in 1..Len(HostsAt(2)) :
          /\ HostsAt(2)[h].address \in unresolvable
          /\ ~SkippedAt(2, h)

\* the bijections of 1..n
Perms(n) == Permutations(1..n)

Permuted(seq, f) == [i \in DOMAIN seq |-> seq[f[i]]]

\* the (address, port) of every host-status under a cluster whose name
\* starts with "spectre." and ends with ".egress_cluster"
CasperSetOf(ci) ==
    UNION {{socket_address(ci[c].host_statuses[h]) : h \in 1..Len(ci[c].host_statuses)} :
           c \in {c \in DOMAIN ci : /\ startswith_spectre(ci[c].name)
                                    /\ endswith_egress_cluster(ci[c].name)}}

\* C10: the casper endpoint set is the set of (address, port) under the
\* clusters named spectre.<...>.egress_cluster, and it is the same for every
\* permutation of the cluster list, every permutation of the host-statuses
\* of a cluster and every duplication of a host-status.
C10_CasperEndpoints ==
    pc = "done" =>
        /\ casper_endpoints = CasperSetOf(clusters_info)
        /\ \A f \in Perms(Len(clusters_info)) :
              get_casper_endpoints(Permuted(clusters_info, f)) = casper_endpoints
        /\ \A c \in ClusterIndexes :
              /\ \A g \in Perms(Len(HostsAt(c))) :
                    get_casper_endpoints(
                        [clusters_info EXCEPT ![c].host_statuses = Permuted(@, g)])
                        = casper_endpoints
              /\ \A h \in 1..Len(HostsAt(c)) :
                    get_casper_endpoints(
                        [clusters_info EXCEPT ![c].host_statuses = Append(@, @[h])])
                        = casper_endpoints

\* C10 witness: two casper clusters with different host-statuses, so that the
\* set has two endpoints gathered across clusters.
C10_Witness ==
    /\ pc = "done"
    /\ Len(clusters_info) = 2
    /\ IsCasperCluster(clusters_info[1]) /\ IsCasperCluster(clusters_info[2])
    /\ Len(HostsAt(1)) = 2 /\ Len(HostsAt(2)) = 1
    /\ HostsAt(1)[1] = HostsAt(1)[2]
    /\ HostsAt(2)[1] # HostsAt(1)[1]
    /\ Cardinality(casper_endpoints) = 2

\* the task-ports that were emitted with no backend, as (None, task)
UnmatchedTaskPorts ==
    {tp \in TaskPorts_All :
        \E i \in PairsOfTaskPort(tp[1], tp[2]) : Pairs[i].backend = None}

\* C11: the returned list is as long as the number of input backends plus
\* the number of (task, port) combinations emitted as (None, task).
C11_Length ==
    Returned => Len(Pairs) = Len(backends) + Cardinality(UnmatchedTaskPorts)

\* C11 witness: two backends of one key matched by a task-port, a backend
\* that no task matches, and a task-port that no backend matches.
C11_Witness ==
    /\ Returned
    /\ Len(backends) = 3
    /\ Cardinality(UnmatchedTaskPorts) = 1
    /\ Len(Pairs) = 4
    /\ \E i, j \in PairIndexes :
          /\ i # j
          /\ KeysEqual(i) /\ KeysEqual(j)
          /\ Pairs[i].port = Pairs[j].port
    /\ \E i \in PairIndexes : Pairs[i].task = None

\* the backend dicts after the call
Objects == backend_task_pairs.objects

\* C12 (as claimed): after the correlation a backend paired with a task has
\* has_associated_task true, and a backend paired with None has it false or
\* unset.
C12_Annotated ==
    Returned =>
        \A i \in PairIndexes :
            Pairs[i].backend # None =>
                IF Pairs[i].task # None
                THEN Objects[Pairs[i].backend].has_associated_task = "true"
                ELSE Objects[Pairs[i].backend].has_associated_task \in {"false", "unset"}

\* C12 (amended): match_backends_and_tasks writes to no backend: every
\* backend is returned as it was handed in, has_associated_task unset also
\* when it is paired with a task; the match shows only in the task side of
\* the backend's pair.
C12_NotAnnotated ==
    Returned =>
        /\ Objects = backends
        /\ \A i \in PairIndexes :
              Pairs[i].backend # None =>
                  Objects[Pairs[i].backend].has_associated_task = "unset"

\* C12 witness: a returned correlation with a backend paired with a task and
\* a backend paired with None.
C12_Witness ==
    /\ Returned
    /\ \E i, j \in PairIndexes :
          /\ BothSides(i)
          /\ Pairs[j].backend # None /\ Pairs[j].task = None

\* the input backends with the key of the task's p-th port
GroupOf(t, p) == {b \in 1..Len(backends) : BackendKey(b) = TaskPortKey(t, p)}

\* no earlier task-port, in task-then-port order, resolves to the same key
FirstOfItsKey(t, p) ==
    \A tp \in TaskPorts_All :
        Earlier(tp[1], tp[2], t, p) => TaskPortKey(tp[1], tp[2]) # TaskPortKey(t, p)

KeptSeq(c) ==
    SelectSeq([h \in 1..Len(HostsAt(c)) |-> h], LAMBDA h : ~SkippedAt(c, h))

\* a host-status of the casper endpoint set occurs before position h in c
CasperBefore(c, h) ==
    \E g \in 1..(h - 1) : socket_address(HostsAt(c)[g]) \in casper_endpoints

\* C16: the casper flag of a returned backend is true iff the service name
\* of its cluster does not start with "spectre." and a host-status of the
\* casper endpoint set occurs earlier in the same cluster; within a cluster
\* the flags never go from true back to false, and a cluster's first flags
\* do not depend on the cluster before it.
C16_CasperFlag ==
    ExtractReturned =>
        \A c \in ClusterIndexes :
            LET out == OutOf(c)
                kept == KeptSeq(c)
            IN IF SelectedAt(c)
               THEN /\ Len(out) = Len(kept)
                    /\ \A j \in 1..Len(out) :
                          out[j].casper <=>
                              (/\ ~startswith_spectre(ServiceNameAt(c))
                               /\ CasperBefore(c, kept[j]))
                    /\ \A i, j \in 1..Len(out) :
                          (i < j /\ out[i].casper) => out[j].casper
               ELSE Len(out) = 0

\* C16 witness: a web cluster listing a host, a casper host and the host
\* again, followed by the spectre cluster: the flags are false, true for the
\* web cluster and false again for the spectre cluster.
C16_Witness ==
    /\ ExtractReturned
    /\ Len(clusters_info) = 2
    /\ clusters_info[1].name = <<"web", "egress_cluster">>
    /\ clusters_info[2].name = <<"spectre", "foo", "egress_cluster">>
    /\ Len(HostsAt(1)) = 3 /\ Len(HostsAt(2)) = 1
    /\ HostsAt(1)[2] = HostsAt(2)[1]
    /\ HostsAt(1)[1] # HostsAt(2)[1] /\ HostsAt(1)[3] # HostsAt(2)[1]
    /\ Len(Out) = 3
    /\ ~Out[1].casper /\ Out[2].casper /\ ~Out[3].casper
    /\ Out[2].cluster = 1 /\ Out[3].cluster = 2

\* --------------------------------------- properties of the command function

CliReturned == pc = "done" /\ cli.status = "returned"

\* some found configuration is a Kubernetes or EKS deployment config
SomeCapable ==
    \E i \in DOMAIN instance_configs : instance_configs[i].kind \in {"kubernetes", "eks"}

\* C14: paasta_show_metric_providers returns 1 when no instance configuration
\* is found and when none of those found is a Kubernetes or EKS deployment
\* config, and 0 in every other case, human-readable mode with no instance
\* that has autoscaling enabled included; it always prints at least one line.
C14_ReturnCodes ==
    CliReturned =>
        /\ cli.code = (IF instance_configs = << >> \/ ~SomeCapable THEN 1 ELSE 0)
        /\ Len(cli.printed) >= 1

\* C14 witness: human-readable mode, a config of another kind and an EKS
\* config, none with autoscaling enabled: one line, return code 0.
C14_Witness ==
    /\ CliReturned
    /\ ~args.json
    /\ Len(instance_configs) = 2
    /\ instance_configs[1].kind = "other"
    /\ instance_configs[2].kind = "eks"
    /\ \A i \in DOMAIN instance_configs : ~instance_configs[i].autoscaling_enabled
    /\ cli.code = 0
    /\ cli.printed = <<"No instances with autoscaling enabled">>

====
